---- MODULE Spec2Model ----
(***************************************************************************)
(* signcode.py: re-packaging of release archives with signed libraries.    *)
(*                                                                         *)
(* Two specifications:                                                     *)
(*   Spec        the script run as a program (the __main__ block): the     *)
(*               start-up checks, the keystore check and the batch loop.   *)
(*   SpecSigner  the two signer functions, sign_java_library and           *)
(*               sign_dotnet_library, applied to a temporary file with     *)
(*               the external tools' results drawn from bounded sets.      *)
(*                                                                         *)
(* Python binds the arguments of a call before the callee runs.  Line 131  *)
(* passes the keyword `mpression` to zipfile.ZipFile, which declares no    *)
(* such parameter: the call raises TypeError for every archive, after the  *)
(* source archive has been opened and before the destination is touched.   *)
(* Lines 132-153 (the entry loop) are therefore never executed by the      *)
(* program, and Spec has no action for them.                               *)
(***************************************************************************)
EXTENDS Integers, Sequences, FiniteSets, TLC

\* Longest entry list of an input archive.
MaxEntries == 2

\* Largest exit status an external tool returns (0 is success).
MaxReturnCode == 1

(***************************************************************************)
(* Files and archive entries                                               *)
(***************************************************************************)

\* A file name, as pathlib splits it.
FileName(stem, suffix) == [stem |-> stem, suffix |-> suffix]

\* A zip entry: ZipInfo.filename (slash = it ends with "/"), ZipInfo.CRC and
\* the entry's bytes.
ZipEntry(stem, suffix, slash, crc, data) ==
    [filename |-> [stem |-> stem, suffix |-> suffix, slash |-> slash],
     CRC |-> crc, data |-> data]

\* Entries the input archives are built from: a directory, a native library,
\* a managed library and a text file.
EntryPool ==
    { ZipEntry("lib", "", TRUE, 0, "empty"),
      ZipEntry("shared", ".dll", FALSE, 1, "dllbytes"),
      ZipEntry("a", ".jar", FALSE, 2, "jarbytes"),
      ZipEntry("readme", ".txt", FALSE, 3, "text") }

RECURSIVE SeqsUpTo(_, _)
SeqsUpTo(S, n) ==
    IF n = 0 THEN { <<>> }
    ELSE LET shorter == SeqsUpTo(S, n - 1)
         IN  shorter \cup { Append(s, e) : s \in shorter, e \in S }

\* What a file of the source directory holds: a readable zip archive with its
\* entry list, or something zipfile cannot read.
FileBodies ==
    { [zip |-> TRUE, entries |-> es] : es \in SeqsUpTo(EntryPool, MaxEntries) }
      \cup { [zip |-> FALSE, entries |-> <<>>] }

SrcNames == { FileName("a", ".zip"), FileName("b", ".zip"), FileName("notes", ".txt") }
ArchiveNames == { n \in SrcNames : n.suffix = ".zip" }
DstNames == { FileName("a", ".zip"), FileName("old", ".txt") }

\* No archive is being processed; no file has been handed over or returned.
NoAssembly == [stem |-> "", suffix |-> ""]
NoLibrary == [data |-> "none", signed |-> FALSE, stamped |-> FALSE]

\* The body of a file that was in the destination directory before the run.
OldBody == [zip |-> FALSE, entries |-> <<>>]

\* The PKCS12 keystore as the checks of lines 112-120 see it.
KeystoreOk == [password |-> TRUE, key |-> TRUE, cert |-> TRUE, alias |-> TRUE,
               fingerprint |-> TRUE, expiresSoon |-> FALSE]
Keystores ==
    { KeystoreOk,
      [KeystoreOk EXCEPT !.expiresSoon = TRUE],
      [KeystoreOk EXCEPT !.password = FALSE],
      [KeystoreOk EXCEPT !.key = FALSE],
      [KeystoreOk EXCEPT !.cert = FALSE],
      [KeystoreOk EXCEPT !.alias = FALSE],
      [KeystoreOk EXCEPT !.fingerprint = FALSE] }

\* is_java_library / is_dotnet_library: the suffix of the entry's path,
\* compared case-sensitively.
is_java_library(path) == path.suffix = ".jar"
is_dotnet_library(path) == path.suffix = ".dll"

VARIABLES
    pc,                 \* position of the program
    err,                \* the exception that ended the run or the signer, or "none"
    out,                \* the messages printed so far
    srcExists,          \* args.src exists
    dstExists,          \* args.dst exists
    keystoreExists,     \* args.keystore exists
    src,                \* files of args.src: name -> body
    dst,                \* files of args.dst: name -> body
    dst0,               \* files of args.dst when the run started
    keystore,           \* the keystore's content
    globbed,            \* archives args.src.glob('*.zip') has yielded
    assembly,           \* the archive being processed, or NoAssembly
    sourceZip,          \* "none", "open" or "closed"
    cache,              \* CRC -> signed library
    globalCacheCounter,
    toolCalls,          \* subprocess.run invocations, in order
    variant,            \* signer under test: "java" or "dotnet" ("none" in Spec)
    results,            \* the tools' results, by step
    lib,                \* content of the temporary file handed to the signer
    lib0,               \* its content when the signer was called
    returned            \* what the signer returned, or NoLibrary

vars == << pc, err, out, srcExists, dstExists, keystoreExists, src, dst, dst0,
           keystore, globbed, assembly, sourceZip, cache, globalCacheCounter,
           toolCalls, variant, results, lib, lib0, returned >>

files == << srcExists, dstExists, keystoreExists, src, dst0, keystore >>
signer == << variant, results, lib, lib0, returned >>

EmptyDir == [n \in {} |-> OldBody]

(***************************************************************************)
(* Start-up (lines 95-127)                                                 *)
(***************************************************************************)

\* assert_path_exists: False and an ERROR line when the path is missing.
assert_path_exists(exists) == exists

Init ==
    /\ pc = "check_paths"
    /\ err = "none"
    /\ out = {}
    /\ srcExists \in BOOLEAN
    /\ dstExists \in BOOLEAN
    /\ keystoreExists \in BOOLEAN
    /\ \E names \in SUBSET SrcNames :
         /\ ~srcExists => names = {}
         /\ src \in [names -> FileBodies]
         /\ \A n \in names : n \notin ArchiveNames => src[n] = OldBody
    /\ \E names \in SUBSET DstNames :
         /\ ~dstExists => names = {}
         /\ dst = [n \in names |-> OldBody]
    /\ dst0 = dst
    /\ keystore \in Keystores
    /\ ~keystoreExists => keystore = KeystoreOk
    /\ globbed = {}
    /\ assembly = NoAssembly
    /\ sourceZip = "none"
    /\ cache = << >>
    /\ globalCacheCounter = 0
    /\ toolCalls = << >>
    /\ variant = "none"
    /\ results = << >>
    /\ lib = NoLibrary
    /\ lib0 = NoLibrary
    /\ returned = NoLibrary

\* Lines 95-104: every path is tested (the list is built before all() reads
\* it); one missing path raises AssertionError.
CheckPaths ==
    /\ pc = "check_paths"
    /\ LET checks == << assert_path_exists(srcExists),
                        assert_path_exists(dstExists),
                        assert_path_exists(keystoreExists) >>
       IN  IF \A i \in 1..3 : checks[i]
           THEN /\ pc' = "check_listing"
                /\ err' = err
                /\ out' = out
           ELSE /\ pc' = "aborted"
                /\ err' = "AssertionError"
                /\ out' = out \cup {"ERROR path"}
    /\ UNCHANGED << files, dst, globbed, assembly, sourceZip, cache,
                    globalCacheCounter, toolCalls, signer >>

\* CheckListing with a non-empty destination directory made fatal.
CheckListingFatal ==
    /\ pc = "check_listing"
    /\ IF Cardinality(DOMAIN dst) > 0
       THEN /\ pc' = "aborted"
            /\ err' = "AssertionError"
            /\ out' = out \cup {"ERROR destination not empty"}
       ELSE /\ pc' = "load_keystore"
            /\ err' = err
            /\ out' = out
    /\ UNCHANGED << files, dst, globbed, assembly, sourceZip, cache,
                    globalCacheCounter, toolCalls, signer >>

\* Lines 107-108: the listing tested is that of args.src; the message names
\* args.dst. Only a warning is printed.
CheckListing ==
    /\ pc = "check_listing"
    /\ out' = IF Cardinality(DOMAIN src) > 0
              THEN out \cup {"WARN destination not empty"}
              ELSE out
    /\ pc' = "load_keystore"
    /\ UNCHANGED << err, files, dst, globbed, assembly, sourceZip, cache,
                    globalCacheCounter, toolCalls, signer >>

\* Lines 110-127: load_pkcs12 raises ValueError on a wrong password, the four
\* asserts raise AssertionError; then the cache and the counter are created.
LoadKeystore ==
    /\ pc = "load_keystore"
    /\ IF ~keystore.password
       THEN /\ pc' = "aborted"
            /\ err' = "ValueError"
            /\ out' = out
       ELSE IF ~keystore.key \/ ~keystore.cert \/ ~keystore.alias
                 \/ ~keystore.fingerprint
       THEN /\ pc' = "aborted"
            /\ err' = "AssertionError"
            /\ out' = out
       ELSE /\ pc' = "next_assembly"
            /\ err' = err
            /\ out' = out \cup { IF keystore.expiresSoon
                                 THEN "WARN certificate expires"
                                 ELSE "INFO certificate expires" }
    /\ cache' = << >>
    /\ globalCacheCounter' = 0
    /\ UNCHANGED << files, dst, globbed, assembly, sourceZip, toolCalls, signer >>

(***************************************************************************)
(* The batch loop (lines 129-154)                                          *)
(***************************************************************************)

\* args.src.glob('*.zip'): the files of args.src whose name ends in .zip.
glob == { n \in DOMAIN src : n.suffix = ".zip" }

\* Line 129-130: the generator yields the next archive, in the directory's
\* enumeration order (any order).
NextAssembly ==
    /\ pc = "next_assembly"
    /\ \E a \in glob \ globbed :
         /\ assembly' = a
         /\ globbed' = globbed \cup {a}
    /\ out' = out \cup {"INFO processing assembly file"}
    /\ pc' = "open_source"
    /\ UNCHANGED << err, files, dst, sourceZip, cache, globalCacheCounter,
                    toolCalls, signer >>

\* Line 131, first context manager: zipfile.ZipFile(assembly, mode='r'),
\* BadZipFile when the file is no zip archive.
OpenSource ==
    /\ pc = "open_source"
    /\ IF src[assembly].zip
       THEN /\ sourceZip' = "open"
            /\ pc' = "open_target"
            /\ err' = err
       ELSE /\ sourceZip' = sourceZip
            /\ pc' = "aborted"
            /\ err' = "BadZipFile"
    /\ UNCHANGED << out, files, dst, globbed, assembly, cache,
                    globalCacheCounter, toolCalls, signer >>

\* The parameters ZipFile.__init__ declares, and the keywords line 131 passes.
ZipFileParameters == {"file", "mode", "compression", "allowZip64", "compresslevel",
                      "strict_timestamps", "metadata_encoding"}
TargetKeywords == {"mode", "mpression", "compresslevel"}

\* zipfile.ZipFile(args.dst / assembly.name, mode='x', ...): the outcome of
\* the constructor call. Argument binding comes first; mode 'x' creates the
\* file and refuses an existing one.
ZipFileInit(keywords, exists) ==
    IF ~(keywords \subseteq ZipFileParameters) THEN "TypeError"
    ELSE IF exists THEN "FileExistsError"
    ELSE "created"

\* OpenTarget with the destination opened as ZipFile(path, mode='w'): an
\* existing file is truncated.
OpenTargetOverwrite ==
    /\ pc = "open_target"
    /\ dst' = [n \in DOMAIN dst \cup {assembly} |->
                 IF n = assembly THEN [zip |-> TRUE, entries |-> <<>>] ELSE dst[n]]
    /\ pc' = "entries"
    /\ UNCHANGED << err, sourceZip, out, files, globbed, assembly, cache,
                    globalCacheCounter, toolCalls, signer >>

\* Line 131, second context manager. An exception leaves the with statement
\* through sourceZip.__exit__, which closes the source archive.
OpenTarget ==
    /\ pc = "open_target"
    /\ LET r == ZipFileInit(TargetKeywords, assembly \in DOMAIN dst)
       IN  IF r = "created"
           THEN /\ dst' = [n \in DOMAIN dst \cup {assembly} |->
                             IF n = assembly THEN [zip |-> TRUE, entries |-> <<>>]
                             ELSE dst[n]]
                /\ pc' = "entries"
                /\ err' = err
                /\ sourceZip' = sourceZip
           ELSE /\ dst' = dst
                /\ pc' = "aborted"
                /\ err' = r
                /\ sourceZip' = "closed"
    /\ UNCHANGED << out, files, globbed, assembly, cache, globalCacheCounter,
                    toolCalls, signer >>

\* Line 154: the generator is exhausted.
AllDone ==
    /\ pc = "next_assembly"
    /\ glob \ globbed = {}
    /\ out' = out \cup {"INFO All Done"}
    /\ pc' = "done"
    /\ UNCHANGED << err, files, dst, globbed, assembly, sourceZip, cache,
                    globalCacheCounter, toolCalls, signer >>

Next ==
    \/ CheckPaths
    \/ CheckListing
    \/ LoadKeystore
    \/ NextAssembly
    \/ OpenSource
    \/ OpenTarget
    \/ AllDone

Spec == Init /\ [][Next]_vars

(***************************************************************************)
(* The signers (lines 33-76)                                               *)
(***************************************************************************)

\* What subprocess.run returns: the exit status, and whether the captured
\* output holds the text the caller looks for.
ToolResults == [returncode : 0..MaxReturnCode, marker : BOOLEAN]

\* The temporary file the signer works on: the library's bytes and what the
\* tools have added to them.
Libraries == [data : {"dllbytes", "jarbytes"}, signed : BOOLEAN, stamped : BOOLEAN]

\* `expected in str(result.stdout)`: the empty string occurs in every string.
InOutput(expected, result) == expected = "" \/ result.marker

\* assert_external_toolresult with a missing expected text made fatal.
assert_external_toolresultStrict(result, expected) ==
    IF result.returncode # 0 \/ ~InOutput(expected, result) THEN "raise"
    ELSE "pass"

\* assert_external_toolresult without the test of the exit status.
assert_external_toolresultNoStatus(result, expected) ==
    IF ~InOutput(expected, result) THEN "warn" ELSE "pass"

\* assert_external_toolresult: raises on a non-zero status, warns when the
\* expected text is missing, else nothing.
assert_external_toolresult(result, expected) ==
    IF result.returncode # 0 THEN "raise"
    ELSE IF ~InOutput(expected, result) THEN "warn"
    ELSE "pass"

\* The tool's effect on the file: a sign or timestamp operation that reports
\* success has written to it; verify only reads.
ToolEffect(op, result, l) ==
    IF result.returncode # 0 THEN l
    ELSE IF op = "sign" THEN [l EXCEPT !.signed = TRUE]
    ELSE IF op = "timestamp" THEN [l EXCEPT !.stamped = TRUE]
    ELSE l

InitSigner ==
    /\ variant \in {"java", "dotnet"}
    /\ pc = IF variant = "java" THEN "java_sign" ELSE "dotnet_verify"
    /\ lib \in Libraries
    /\ lib0 = lib
    /\ returned = NoLibrary
    /\ results = << >>
    /\ toolCalls = << >>
    /\ err = "none"
    /\ out = {}
    /\ srcExists = TRUE
    /\ dstExists = TRUE
    /\ keystoreExists = TRUE
    /\ src = EmptyDir
    /\ dst = EmptyDir
    /\ dst0 = EmptyDir
    /\ keystore = KeystoreOk
    /\ globbed = {}
    /\ assembly = NoAssembly
    /\ sourceZip = "none"
    /\ cache = << >>
    /\ globalCacheCounter = 0

program == << srcExists, dstExists, keystoreExists, src, dst, dst0, keystore,
              globbed, assembly, sourceZip, cache, globalCacheCounter >>

\* One subprocess.run followed by assert_external_toolresult: the call is
\* recorded, the file takes the tool's effect, and the signer raises, or
\* continues at `next` (with a warning when the expected text is missing).
RunAndAssert(tool, op, expected, result, next) ==
    /\ toolCalls' = Append(toolCalls, [tool |-> tool, op |-> op,
                                       returncode |-> result.returncode])
    /\ results' = Append(results, result)
    /\ lib' = ToolEffect(op, result, lib)
    /\ LET a == assert_external_toolresult(result, expected)
       IN  /\ pc' = IF a = "raise" THEN "raised" ELSE next
           /\ err' = IF a = "raise" THEN "AssertionError" ELSE err
           /\ out' = IF a = "warn" THEN out \cup {"WARN signing/verifying library"}
                     ELSE out
           /\ returned' = IF a # "raise" /\ next = "returned" THEN lib' ELSE returned

\* sign_java_library, lines 51-57: jarsigner signs the file.
JavaSign ==
    /\ pc = "java_sign"
    /\ \E r \in ToolResults :
         RunAndAssert("jarsigner", "sign", "jar signed", r, "java_verify")
    /\ UNCHANGED << variant, lib0, program >>

\* JavaVerify without line 59: the verify result is not asserted.
JavaVerifyUnasserted ==
    /\ pc = "java_verify"
    /\ \E r \in ToolResults :
         /\ toolCalls' = Append(toolCalls, [tool |-> "jarsigner", op |-> "verify",
                                            returncode |-> r.returncode])
         /\ results' = Append(results, r)
         /\ lib' = ToolEffect("verify", r, lib)
         /\ pc' = "returned"
         /\ returned' = lib'
    /\ UNCHANGED << err, out, variant, lib0, program >>

\* sign_java_library, lines 58-60: jarsigner -verify, then `return lib`.
JavaVerify ==
    /\ pc = "java_verify"
    /\ \E r \in ToolResults :
         RunAndAssert("jarsigner", "verify", "jar verified", r, "returned")
    /\ UNCHANGED << variant, lib0, program >>

\* DotnetVerify with the status test inverted (== 0 for != 0).
DotnetVerifyInverted ==
    /\ pc = "dotnet_verify"
    /\ \E r \in ToolResults :
         /\ toolCalls' = Append(toolCalls, [tool |-> "signtool", op |-> "verify",
                                            returncode |-> r.returncode])
         /\ results' = Append(results, r)
         /\ lib' = ToolEffect("verify", r, lib)
         /\ IF r.returncode = 0
            THEN /\ pc' = "dotnet_sign"
                 /\ out' = out
                 /\ returned' = returned
            ELSE /\ pc' = "returned"
                 /\ out' = out \cup {"WARN already signed"}
                 /\ returned' = lib'
    /\ UNCHANGED << err, variant, lib0, program >>

\* sign_dotnet_library, lines 64-65 and 74-76: signtool verify; a zero status
\* prints the warning and returns the file as it is.
DotnetVerify ==
    /\ pc = "dotnet_verify"
    /\ \E r \in ToolResults :
         /\ toolCalls' = Append(toolCalls, [tool |-> "signtool", op |-> "verify",
                                            returncode |-> r.returncode])
         /\ results' = Append(results, r)
         /\ lib' = ToolEffect("verify", r, lib)
         /\ IF r.returncode # 0
            THEN /\ pc' = "dotnet_sign"
                 /\ out' = out
                 /\ returned' = returned
            ELSE /\ pc' = "returned"
                 /\ out' = out \cup {"WARN already signed"}
                 /\ returned' = lib'
    /\ UNCHANGED << err, variant, lib0, program >>

\* DotnetSign without lines 70-71: the timestamp step is skipped.
DotnetSignNoTimestamp ==
    /\ pc = "dotnet_sign"
    /\ \E r \in ToolResults :
         RunAndAssert("signtool", "sign", "", r, "dotnet_verify_again")
    /\ UNCHANGED << variant, lib0, program >>

\* sign_dotnet_library, lines 66-69: signtool sign.
DotnetSign ==
    /\ pc = "dotnet_sign"
    /\ \E r \in ToolResults :
         RunAndAssert("signtool", "sign", "", r, "dotnet_timestamp")
    /\ UNCHANGED << variant, lib0, program >>

\* sign_dotnet_library, lines 70-71: signtool timestamp.
DotnetTimestamp ==
    /\ pc = "dotnet_timestamp"
    /\ \E r \in ToolResults :
         RunAndAssert("signtool", "timestamp", "", r, "dotnet_verify_again")
    /\ UNCHANGED << variant, lib0, program >>

\* sign_dotnet_library, lines 72-73 and 76: signtool verify, then `return lib`.
DotnetVerifyAgain ==
    /\ pc = "dotnet_verify_again"
    /\ \E r \in ToolResults :
         RunAndAssert("signtool", "verify", "", r, "returned")
    /\ UNCHANGED << variant, lib0, program >>

NextSigner ==
    \/ JavaSign
    \/ JavaVerify
    \/ DotnetVerify
    \/ DotnetSign
    \/ DotnetTimestamp
    \/ DotnetVerifyAgain

SpecSigner == InitSigner /\ [][NextSigner]_vars

(***************************************************************************)
(* Properties                                                              *)
(***************************************************************************)

\* The run has ended, normally or by an exception.
Ended == pc \in {"done", "aborted"}

\* The signtool sign operations invoked so far.
NativeSignCalls ==
    Cardinality({ i \in 1..Len(toolCalls) :
                    toolCalls[i].tool = "signtool" /\ toolCalls[i].op = "sign" })

\* The archive holds a native-library file entry with checksum crc.
HasDll(body, crc) ==
    /\ body.zip
    /\ \E i \in 1..Len(body.entries) :
         /\ ~body.entries[i].filename.slash
         /\ is_dotnet_library(body.entries[i].filename)
         /\ body.entries[i].CRC = crc

\* The batch of C3: the paths and the keystore are in order, the destination
\* is empty, and the source holds two archives that share a .dll checksum.
SharedDllBatch ==
    /\ srcExists /\ dstExists /\ keystoreExists
    /\ keystore = KeystoreOk
    /\ DOMAIN dst0 = {}
    /\ Cardinality(glob) = 2
    /\ \E crc \in { e.CRC : e \in EntryPool } : \A a \in glob : HasDll(src[a], crc)
    /\ \A i \in 1..Len(toolCalls) : toolCalls[i].returncode = 0

\* C3 (as the claim states it): a run over two archives that each hold a .dll
\* entry with the same checksum, every tool step returning zero, ends normally
\* with both archives processed and exactly one native signing operation.
C3_SharedDllSignedOnce ==
    (SharedDllBatch /\ Ended) =>
        /\ pc = "done"
        /\ globbed = glob
        /\ NativeSignCalls = 1

\* C6: when the native-library signer's initial verify returns zero status,
\* that verify is the only tool invocation (no sign, no timestamp, no second
\* verify), and the signer returns the file with its content unchanged.
C6_AlreadySignedUntouched ==
    (variant = "dotnet" /\ Len(toolCalls) >= 1 /\ toolCalls[1].returncode = 0) =>
        /\ Len(toolCalls) = 1
        /\ toolCalls[1].op = "verify"
        /\ pc = "returned"
        /\ err = "none"
        /\ lib = lib0
        /\ returned = lib0

C6_Witness ==
    /\ variant = "dotnet"
    /\ pc = "returned"
    /\ Len(toolCalls) = 1
    /\ toolCalls[1].returncode = 0
    /\ returned = lib0

\* C9: when the destination directory already holds a file named like an input
\* archive, the run never ends normally, no entry of that archive is processed
\* (the program is never inside its entry loop, nothing is signed or cached),
\* and the file that was there keeps its content.
C9_ExistingDestinationAborts ==
    \A a \in glob \cap DOMAIN dst0 :
        /\ pc # "done"
        /\ a \in DOMAIN dst /\ dst[a] = dst0[a]
        /\ assembly = a => pc \in {"open_source", "open_target", "aborted"}
        /\ toolCalls = << >>
        /\ cache = << >>

C9_Witness ==
    /\ assembly \in DOMAIN dst0
    /\ sourceZip = "closed"
    /\ pc = "aborted"
    /\ dst = dst0

\* C10 (as the claim states it): with a non-empty destination directory the
\* run ends by aborting, never normally, and no tool has been invoked and no
\* output archive created.
C10_NonEmptyDestinationFatal ==
    DOMAIN dst0 # {} =>
        /\ pc # "done"
        /\ toolCalls = << >>
        /\ dst = dst0

\* C10 (amended): a non-empty destination directory does not abort the run at
\* start-up. With the required paths present and a keystore that passes its
\* checks, the run aborts, if at all, only inside the batch loop, whatever the
\* destination holds; and until the batch loop is reached no tool has been
\* invoked and no output archive created.
C10_NonEmptyDestinationNotFatal ==
    (DOMAIN dst0 # {} /\ srcExists /\ dstExists /\ keystoreExists
       /\ keystore \in {KeystoreOk, [KeystoreOk EXCEPT !.expiresSoon = TRUE]}) =>
        /\ pc = "aborted" => assembly # NoAssembly
        /\ assembly = NoAssembly => (toolCalls = << >> /\ dst = dst0)

C10_Witness ==
    /\ DOMAIN dst0 # {}
    /\ pc = "next_assembly"
    /\ globbed = {}

\* The batch of C11: the start-up and keystore checks pass, the destination
\* directory is empty, every input archive is a readable zip file and every
\* tool invocation has returned zero.
CleanBatch ==
    /\ srcExists /\ dstExists /\ keystoreExists
    /\ keystore \in {KeystoreOk, [KeystoreOk EXCEPT !.expiresSoon = TRUE]}
    /\ DOMAIN dst0 = {}
    /\ \A a \in glob : src[a].zip
    /\ \A i \in 1..Len(toolCalls) : toolCalls[i].returncode = 0

\* C11 (as the claim states it): a run over a clean batch ends normally, and
\* the destination directory then holds exactly one archive per input .zip
\* archive, under the input's file name.
C11_OneOutputPerInput ==
    (CleanBatch /\ Ended) =>
        /\ pc = "done"
        /\ DOMAIN dst = glob
        /\ \A a \in glob : dst[a].zip

\* The i-th tool invocation is the native-library signer's initial verify
\* (line 64), whose status selects the branch instead of being asserted.
InitialVerify(i) == variant = "dotnet" /\ i = 1

\* What a failed tool invocation i must leave behind: it is the last
\* invocation, the signer has raised and returned nothing, and nothing was
\* cached, written to the destination or fetched from the batch after it.
AbortedAt(i) ==
    /\ i = Len(toolCalls)
    /\ pc = "raised"
    /\ err = "AssertionError"
    /\ returned = NoLibrary
    /\ cache = << >>
    /\ dst = dst0
    /\ globbed = {}

JavaPosition(n) ==
    IF n = 0 THEN "java_sign" ELSE IF n = 1 THEN "java_verify" ELSE "returned"

DotnetOps == << "verify", "sign", "timestamp", "verify" >>
JavaOps == << "sign", "verify" >>

\* C14: once the native-library signer's initial verify has returned
\* non-zero, signtool is invoked in the order sign, timestamp, verify; a step
\* is invoked only after every earlier one of the three returned zero; a
\* non-zero status at any of them raises the signing error and ends the
\* invocations; and the signer returns the file only after all three
\* returned zero.
C14_NativeProtocolOrder ==
    (variant = "dotnet" /\ Len(toolCalls) >= 1 /\ toolCalls[1].returncode # 0) =>
        /\ Len(toolCalls) <= 4
        /\ \A i \in 1..Len(toolCalls) :
             /\ toolCalls[i].tool = "signtool"
             /\ toolCalls[i].op = DotnetOps[i]
        /\ \A i \in 2..Len(toolCalls) :
             /\ i < Len(toolCalls) => toolCalls[i].returncode = 0
             /\ toolCalls[i].returncode # 0 =>
                  (pc = "raised" /\ err = "AssertionError" /\ returned = NoLibrary)
        /\ pc = "raised" => toolCalls[Len(toolCalls)].returncode # 0
        /\ pc = "returned" =>
             /\ Len(toolCalls) = 4
             /\ \A i \in 2..4 : toolCalls[i].returncode = 0
             /\ returned = lib
             /\ lib.signed /\ lib.stamped

C14_Witness ==
    /\ variant = "dotnet"
    /\ pc = "returned"
    /\ Len(toolCalls) = 4
    /\ toolCalls[1].returncode # 0
    /\ toolCalls[3].op = "timestamp"

\* C15: the managed-library signer invokes jarsigner's sign operation first
\* and its verify operation second; verify is invoked only after sign
\* returned zero; a non-zero status at either step raises the signing error;
\* and the signer returns the file only after both returned zero.
C15_ManagedProtocolOrder ==
    variant = "java" =>
        /\ Len(toolCalls) <= 2
        /\ \A i \in 1..Len(toolCalls) :
             /\ toolCalls[i].tool = "jarsigner"
             /\ toolCalls[i].op = JavaOps[i]
             /\ i < Len(toolCalls) => toolCalls[i].returncode = 0
             /\ toolCalls[i].returncode # 0 =>
                  (pc = "raised" /\ err = "AssertionError" /\ returned = NoLibrary)
        /\ pc = "raised" =>
             (Len(toolCalls) >= 1 /\ toolCalls[Len(toolCalls)].returncode # 0)
        /\ pc = "returned" =>
             /\ Len(toolCalls) = 2
             /\ \A i \in 1..2 : toolCalls[i].returncode = 0
             /\ returned = lib
             /\ lib.signed

C15_Witness ==
    /\ variant = "java"
    /\ pc = "returned"
    /\ Len(toolCalls) = 2
    /\ toolCalls[1].op = "sign"
    /\ toolCalls[2].op = "verify"

====
